---- MODULE Spec2Model ----
(***************************************************************************)
(* Deep Swipe: the swipe-generation orchestrator (generateMessageSwipe,    *)
(* its abort handler and performAbortCleanup, dswipeForward) and the       *)
(* navigation between swipes (dswipeBack, the click handler of the right   *)
(* arrow) modelled as a state machine over the shared chat array.          *)
(*                                                                         *)
(* The chat array holds references to message objects; the orchestrator    *)
(* keeps references (message, originalTargetMessage, ...) across awaits    *)
(* and replaces objects by JSON clones, so the model keeps a heap of       *)
(* objects and the chat as a sequence of object ids.  Message indices      *)
(* (messageId, swipe_id, newSwipeIndex) are 0-based as in the source;      *)
(* TLA+ sequences are 1-based, so chat[messageId] is written At(ch, i).    *)
(***************************************************************************)
EXTENDS Integers, Sequences, FiniteSets, TLC

VARIABLES heap, chat, cyc, chatBackupBeforeGeneration, stopListeners,
          traceListeners, persisted, corrupted, nav, stale

vars == <<heap, chat, cyc, chatBackupBeforeGeneration, stopListeners,
          traceListeners, persisted, corrupted, nav, stale>>

(***************************************************************************)
(* Bounds of the model.                                                    *)
(***************************************************************************)
MaxLen == 3
MaxCycles == 1
MaxObj == 6

Cycles == 1..MaxCycles
\* the objects of the heap: those of the initial chat and MaxObj more
Oids == 1..(MaxLen + MaxObj)

\* null / undefined reference
Null == 0

\* the value a read of a missing array element or property yields
Undefined == "<undefined>"

Min(a, b) == IF a <= b THEN a ELSE b
Max(a, b) == IF a >= b THEN a ELSE b

(***************************************************************************)
(* Message objects.  reasoning stands for extra.reasoning ("" when the     *)
(* property is absent), isDeepSwipeTemp for extra.isDeepSwipeTemp (the     *)
(* temp message is the only one made with extra.isSmallSys, so the field   *)
(* stands for that flag too), and an element of swipe_info for that        *)
(* swipe's extra.reasoning.  swipeable is FALSE for extra.swipeable ===     *)
(* false.  The messages the extension makes are neither system messages    *)
(* nor flagged.                                                            *)
(***************************************************************************)
Message(isUser, mes, hasSwipes, swipes, swipeId, hasInfo, info, reasoning, temp) ==
    [is_user |-> isUser, mes |-> mes, hasSwipes |-> hasSwipes, swipes |-> swipes,
     swipe_id |-> swipeId, hasInfo |-> hasInfo, swipe_info |-> info,
     reasoning |-> reasoning, isDeepSwipeTemp |-> temp,
     is_system |-> FALSE, swipeable |-> TRUE,
     api |-> "", swipe_api |-> <<>>]

\* extra.api and extra.model (the provenance the model icon is drawn from) of
\* the message and of each element of swipe_info; "" where it is absent
WithApi(m, api, apis) == [m EXCEPT !.api = api, !.swipe_api = apis]

\* the content of a heap cell no reference leads to
Free == Message(FALSE, "", FALSE, <<>>, 0, FALSE, <<>>, "", FALSE)

\* String.prototype.trim on the texts of the model
Trim(t) == CASE t = " " -> ""
             [] t = "g " -> "g"
             [] OTHER -> t

\* JS truthiness of a string-or-undefined value (x || y)
Truthy(t) == t # "" /\ t # Undefined

Or(t, u) == IF Truthy(t) THEN t ELSE u

(***************************************************************************)
(* Arrays.                                                                 *)
(***************************************************************************)
At(s, i) == IF i >= 0 /\ i < Len(s) THEN s[i + 1] ELSE Null

\* array.length = n : truncates, or pads with empty slots
SetLength(s, n) ==
    IF n <= Len(s) THEN SubSeq(s, 1, n)
    ELSE s \o [k \in 1..(n - Len(s)) |-> Null]

\* array.splice(i, 0, ...items)
SpliceIn(s, i, items) ==
    LET j == Min(i, Len(s)) IN SubSeq(s, 1, j) \o items \o SubSeq(s, j + 1, Len(s))

\* array.splice(i, 1)
SpliceOut(s, i) == SubSeq(s, 1, i) \o SubSeq(s, i + 2, Len(s))

\* array[i] = v, for i up to the length of the array
SetAt(s, i, v) ==
    IF i < Len(s) THEN [s EXCEPT ![i + 1] = v]
    ELSE s \o [k \in 1..(i - Len(s)) |-> Undefined] \o <<v>>

\* array.pop()
Pop(s) == IF Len(s) = 0 THEN s ELSE SubSeq(s, 1, Len(s) - 1)

Range(s) == {s[k] : k \in 1..Len(s)}

\* JSON.parse(JSON.stringify(chat)) : the values of the objects of an array
Vals(h, ch) == [k \in 1..Len(ch) |-> IF ch[k] = Null THEN Free ELSE h[ch[k]]]

(***************************************************************************)
(* Allocation of objects: the smallest ids no reference leads to.          *)
(***************************************************************************)
RECURSIVE FreshSeq(_, _)
FreshSeq(used, n) ==
    IF n = 0 THEN <<>>
    ELSE LET m == CHOOSE x \in Oids \ used : \A y \in Oids \ used : x <= y
         IN <<m>> \o FreshSeq(used \cup {m}, n - 1)

CycleRefs(cy) ==
    UNION {{cy[c].message, cy[c].originalTargetMessage,
            cy[c].actualTargetMessage, cy[c].targetMessage} : c \in DOMAIN cy}

Reach(ch, cy) == (Range(ch) \cup CycleRefs(cy)) \ {Null}

\* the references a suspended navigation holds: message, messagesToRestore
NavRefs(nv) == ({nv.message} \cup Range(nv.messagesToRestore)) \ {Null}

(***************************************************************************)
(* The locals of one call of generateMessageSwipe, and of the cleanup it   *)
(* may start.  pc is the await the call is suspended at; clean is the      *)
(* await performAbortCleanup is suspended at.  pre (the chat at the call),  *)
(* generated (the text the engine appended), restores and saves (how often *)
(* the chat was put back and saved by the recovery) and resolved (Generate *)
(* returned rather than threw) record history for the properties and are   *)
(* read by no action.                                                      *)
(***************************************************************************)
NoExtra == [reasoning |-> "", api |-> ""]

IdleCycle ==
    [pc |-> "idle", clean |-> "none", result |-> "none",
     messageId |-> 0, isUserMessage |-> FALSE, message |-> Null,
     isOurGeneration |-> FALSE, shouldAutoAdvance |-> FALSE,
     currentText |-> "", originalSwipeId |-> 0, originalSwipeText |-> "",
     originalSwipeExtra |-> NoExtra, capturedTargetMessage |-> Free,
     capturedMessagesAfter |-> <<>>, newSwipeIndex |-> 0,
     originalTargetMessage |-> Null, actualTargetMessage |-> Null,
     targetMessage |-> Null, streamingReasoningData |-> "",
     capturedReasoning |-> "", generationAborted |-> FALSE,
     abortCleanupDone |-> FALSE, engAppended |-> FALSE, engStopped |-> FALSE,
     pre |-> <<>>, generated |-> "", restores |-> 0, saves |-> 0,
     resolved |-> FALSE]

(***************************************************************************)
(* The locals of one navigation (dswipeBack, or the click handler of the   *)
(* right arrow).  pc is the await it is suspended at.  command (what was   *)
(* asked last) and outcome (how that request ended) record history for the *)
(* properties and are read by no action.                                   *)
(***************************************************************************)
IdleNav ==
    [pc |-> "idle", command |-> "none", outcome |-> "none", messageId |-> 0,
     message |-> Null, targetSwipeId |-> 0, messagesToRestore |-> <<>>]

\* the state the handlers read and write, as one record
State ==
    [heap |-> heap, chat |-> chat, cyc |-> cyc,
     backup |-> chatBackupBeforeGeneration, stopL |-> stopListeners,
     traceL |-> traceListeners, persisted |-> persisted, corrupted |-> corrupted,
     nav |-> nav, stale |-> stale]

\* cells no reference leads to are cleared, so that equal programs states are
\* equal states of the model
Collect(st) ==
    LET live == Reach(st.chat, st.cyc) \cup NavRefs(st.nav) IN
    [st EXCEPT !.heap = [o \in Oids |-> IF o \in live THEN st.heap[o] ELSE Free],
               !.corrupted = st.corrupted \cap live]

Becomes(st) ==
    LET n == Collect(st) IN
    /\ heap' = n.heap
    /\ chat' = n.chat
    /\ cyc' = n.cyc
    /\ chatBackupBeforeGeneration' = n.backup
    /\ stopListeners' = n.stopL
    /\ traceListeners' = n.traceL
    /\ persisted' = n.persisted
    /\ corrupted' = n.corrupted
    /\ nav' = n.nav
    /\ stale' = n.stale

\* new objects holding the values vals; [heap, oids]
Clone(st, vals) ==
    LET ids == FreshSeq(Reach(st.chat, st.cyc) \cup NavRefs(st.nav), Len(vals)) IN
    [heap |-> [o \in Oids |-> IF \E k \in 1..Len(ids) : ids[k] = o
                              THEN vals[CHOOSE k \in 1..Len(ids) : ids[k] = o]
                              ELSE st.heap[o]],
     oids |-> ids]

(***************************************************************************)
(* The chats a cycle may start from: MaxLen messages of alternating roles, *)
(* message k with text ToString(k); every message either without a swipes  *)
(* array, or with two swipes and the first or the second displayed.        *)
(***************************************************************************)
Shapes == {"plain", "first", "last"}

\* a swipe_id that is undefined (every comparison with a number is false)
NoIndex == -3

\* id || 0
OrZero(id) == IF id = NoIndex THEN 0 ELSE id

\* the targets whose swipe_id was damaged from outside: past the end of the
\* swipes, negative, or missing
CorruptShapes == {"beyond", "negative", "missing"}

InitMessage(k, isUser, shape) ==
    CASE shape = "plain" ->
           Message(isUser, ToString(k), FALSE, <<>>, 0, FALSE, <<>>, "", FALSE)
      [] shape = "first" ->
           WithApi(Message(isUser, ToString(k), TRUE, <<ToString(k), "b">>, 0,
                           TRUE, <<"", "r0">>, "", FALSE), "", <<"", "m0">>)
      [] shape = "beyond" ->
           WithApi(Message(isUser, "b", TRUE, <<ToString(k), "b">>, 2,
                           TRUE, <<"", "r0">>, "r0", FALSE), "m0", <<"", "m0">>)
      [] shape = "negative" ->
           WithApi(Message(isUser, "b", TRUE, <<ToString(k), "b">>, -1,
                           TRUE, <<"", "r0">>, "r0", FALSE), "m0", <<"", "m0">>)
      [] shape = "missing" ->
           WithApi(Message(isUser, "b", TRUE, <<ToString(k), "b">>, NoIndex,
                           TRUE, <<"", "r0">>, "r0", FALSE), "m0", <<"", "m0">>)
      [] OTHER ->
           WithApi(Message(isUser, "b", TRUE, <<ToString(k), "b">>, 1,
                           TRUE, <<"", "r0">>, "r0", FALSE), "m0", <<"", "m0">>)

Init ==
    \E firstIsUser \in BOOLEAN, shape \in Shapes :
        /\ chat = [k \in 1..MaxLen |-> k]
        /\ heap = [o \in Oids |->
                     IF o <= MaxLen
                     THEN InitMessage(o, (o % 2 = 1) = firstIsUser, shape)
                     ELSE Free]
        /\ cyc = [c \in Cycles |-> IdleCycle]
        /\ chatBackupBeforeGeneration = [live |-> FALSE, log |-> <<>>]
        /\ stopListeners = <<>>
        /\ traceListeners = {}
        /\ persisted = [k \in 1..MaxLen |->
                          InitMessage(k, (k % 2 = 1) = firstIsUser, shape)]
        /\ corrupted = {}
        /\ nav = IdleNav
        /\ stale = {}

\* the same chats with a damaged swipe_id on every message
InitCorrupt ==
    \E firstIsUser \in BOOLEAN, shape \in CorruptShapes :
        /\ chat = [k \in 1..MaxLen |-> k]
        /\ heap = [o \in Oids |->
                     IF o <= MaxLen
                     THEN InitMessage(o, (o % 2 = 1) = firstIsUser, shape)
                     ELSE Free]
        /\ cyc = [c \in Cycles |-> IdleCycle]
        /\ chatBackupBeforeGeneration = [live |-> FALSE, log |-> <<>>]
        /\ stopListeners = <<>>
        /\ traceListeners = {}
        /\ persisted = [k \in 1..MaxLen |->
                          InitMessage(k, (k % 2 = 1) = firstIsUser, shape)]
        /\ corrupted = {}
        /\ nav = IdleNav
        /\ stale = {}

(***************************************************************************)
(* Helpers of the handlers.                                                *)
(***************************************************************************)
\* array[i] read, undefined when out of range
Elem(s, i) == IF i >= 0 /\ i < Len(s) THEN s[i + 1] ELSE Undefined

Without(s, c) == SelectSeq(s, LAMBDA x : x # c)

IsTemp(h, o) == o # Null /\ h[o].isDeepSwipeTemp

\* the largest 0-based index of a temp message, -1 when there is none
LastTempIndex(h, ch) ==
    IF \E k \in 1..Len(ch) : IsTemp(h, ch[k])
    THEN (CHOOSE k \in 1..Len(ch) :
            /\ IsTemp(h, ch[k])
            /\ \A j \in 1..Len(ch) : IsTemp(h, ch[j]) => j <= k) - 1
    ELSE -1

\* chat.findIndex(m => m.extra?.isDeepSwipeTemp)
FirstTempIndex(h, ch) ==
    IF \E k \in 1..Len(ch) : IsTemp(h, ch[k])
    THEN (CHOOSE k \in 1..Len(ch) :
            /\ IsTemp(h, ch[k])
            /\ \A j \in 1..Len(ch) : IsTemp(h, ch[j]) => k <= j) - 1
    ELSE -1

\* the locals of a call die when it returns or throws; what the properties
\* read of it is kept
End(L, result) ==
    [IdleCycle EXCEPT !.pc = "done", !.result = result, !.clean = L.clean,
                      !.messageId = L.messageId, !.isUserMessage = L.isUserMessage,
                      !.shouldAutoAdvance = L.shouldAutoAdvance,
                      !.originalSwipeId = L.originalSwipeId,
                      !.newSwipeIndex = L.newSwipeIndex,
                      !.generationAborted = L.generationAborted,
                      !.abortCleanupDone = L.abortCleanupDone,
                      !.engStopped = L.engStopped,
                      !.pre = L.pre, !.generated = L.generated,
                      !.restores = L.restores, !.saves = L.saves,
                      !.resolved = L.resolved]

(***************************************************************************)
(* utils.js                                                                *)
(***************************************************************************)
\* the value parseInt yields for an argument that is not a number
NaN == -2

isValidMessageId(messageId, ch) ==
    messageId # NaN /\ messageId >= 0 /\ messageId < Len(ch)

\* userSwipes is the setting "Enable Deep Swipes on user messages"
isMessageSwipeable(m, userSwipes) ==
    /\ ~(m.is_user /\ ~userSwipes)
    /\ ~m.is_system
    /\ ~m.isDeepSwipeTemp
    /\ m.swipeable

syncReasoningFromSwipeInfo(m, swipeId) ==
    IF ~m.hasInfo \/ ~(swipeId >= 0 /\ swipeId < Len(m.swipe_info)) THEN m
    ELSE [m EXCEPT !.reasoning = m.swipe_info[swipeId + 1],
                   !.api = IF m.swipe_api[swipeId + 1] # ""
                           THEN m.swipe_api[swipeId + 1] ELSE @]

(***************************************************************************)
(* External persistence (saveChat, saveChatConditional): stores the chat,  *)
(* and as a side effect may empty the text of message k (k = 0: none).     *)
(***************************************************************************)
CanCorrupt(st, k) ==
    IF k = 0 THEN TRUE
    ELSE /\ k <= Len(st.chat)
         /\ st.chat[k] # Null
         /\ st.heap[st.chat[k]].mes # ""

saveChat(st, k) ==
    LET stored == [st EXCEPT !.persisted = Vals(st.heap, st.chat)] IN
    IF k = 0 THEN stored
    ELSE [stored EXCEPT !.heap[st.chat[k]].mes = "",
                        !.corrupted = @ \cup {st.chat[k]}]

(***************************************************************************)
(* performAbortCleanup, up to its first await (context.printMessages).     *)
(***************************************************************************)
\* the fallback restoration of the target of an assistant swipe
RestoredTarget(captured) ==
    LET popped == Pop(captured.swipes)
        id == Max(0, Len(popped) - 1)
    IN [captured EXCEPT !.swipes = popped, !.swipe_id = id, !.mes = Elem(popped, id)]

restoreChat(st, c) ==
    LET L == st.cyc[c]
        mid == L.messageId
        tempMessageIndex == LastTempIndex(st.heap, st.chat)
        cut == IF tempMessageIndex # -1 THEN SetLength(st.chat, tempMessageIndex)
               ELSE IF L.isUserMessage THEN SetLength(st.chat, mid + 1)
               ELSE SetLength(st.chat, mid)
        st1 == [st EXCEPT !.traceL = @ \ {c}, !.stopL = Without(@, c),
                          !.stale = {},
                          !.cyc[c].abortCleanupDone = TRUE,
                          !.cyc[c].clean = "print",
                          !.cyc[c].restores = @ + 1]
    IN
    IF st.backup.live /\ Len(st.backup.log) >= Len(cut)
    THEN LET cl == Clone([st1 EXCEPT !.chat = <<>>], st.backup.log)
         IN [st1 EXCEPT !.heap = cl.heap, !.chat = cl.oids]
    ELSE IF L.isUserMessage
    THEN LET cl == Clone([st1 EXCEPT !.chat = cut], L.capturedMessagesAfter)
         IN [st1 EXCEPT !.heap = cl.heap, !.chat = cut \o cl.oids]
    ELSE LET cl == Clone([st1 EXCEPT !.chat = cut],
                         <<RestoredTarget(L.capturedTargetMessage)>>
                             \o L.capturedMessagesAfter)
         IN [st1 EXCEPT !.heap = cl.heap, !.chat = cut \o cl.oids]

\* the recovery without its guard
performAbortCleanupUnguarded(st, c) == restoreChat(st, c)

\* the guard: only the first invocation does the work
performAbortCleanup(st, c) ==
    IF st.cyc[c].abortCleanupDone THEN st ELSE restoreChat(st, c)

\* the listener of GENERATION_STOPPED, registered with once()
abortHandler(st, c) ==
    LET st1 == [st EXCEPT !.stopL = Without(@, c),
                          !.cyc[c].generationAborted = TRUE]
    IN IF ~st.cyc[c].isOurGeneration THEN st1
       ELSE performAbortCleanup(st1, c)

\* a listener that keeps the first trace it was given
reasoningEventHandlerKeepsFirst(st, c, reasoning) ==
    IF st.cyc[c].streamingReasoningData # "" THEN st
    ELSE [st EXCEPT !.cyc[c].streamingReasoningData = reasoning]

\* the listener of STREAM_REASONING_DONE
reasoningEventHandler(st, c, reasoning) ==
    [st EXCEPT !.cyc[c].streamingReasoningData = reasoning]

(***************************************************************************)
(* generateMessageSwipe, cut at its awaits.                                *)
(***************************************************************************)
\* the entry without the check of the Prompt Inspector
generateMessageSwipeUninspected(st, c, message, messageId, isUserMessage, promptInspectorEnabled, impersonationPrompt) ==
    LET L == [IdleCycle EXCEPT !.messageId = messageId,
                               !.isUserMessage = isUserMessage,
                               !.pre = Vals(st.heap, st.chat)]
    IN
    IF isUserMessage /\ ~impersonationPrompt
    THEN [st EXCEPT !.cyc[c] = End(L, "unconfigured")]
    ELSE [st EXCEPT !.cyc[c] = [L EXCEPT !.pc = "reload", !.message = message,
                                         !.isOurGeneration = TRUE]]

\* the entry without the check of the impersonation prompt
generateMessageSwipeUnprompted(st, c, message, messageId, isUserMessage, promptInspectorEnabled, impersonationPrompt) ==
    LET L == [IdleCycle EXCEPT !.messageId = messageId,
                               !.isUserMessage = isUserMessage,
                               !.pre = Vals(st.heap, st.chat)]
    IN
    IF promptInspectorEnabled THEN [st EXCEPT !.cyc[c] = End(L, "refused")]
    ELSE [st EXCEPT !.cyc[c] = [L EXCEPT !.pc = "reload", !.message = message,
                                         !.isOurGeneration = TRUE]]

\* entry, up to await context.reloadCurrentChat(); the call returns with
\* result "refused" while the Prompt Inspector is enabled and "unconfigured"
\* for a user message without an impersonation prompt
generateMessageSwipe(st, c, message, messageId, isUserMessage, promptInspectorEnabled, impersonationPrompt) ==
    LET L == [IdleCycle EXCEPT !.messageId = messageId,
                               !.isUserMessage = isUserMessage,
                               !.pre = Vals(st.heap, st.chat)]
    IN
    IF promptInspectorEnabled THEN [st EXCEPT !.cyc[c] = End(L, "refused")]
    ELSE IF isUserMessage /\ ~impersonationPrompt
    THEN [st EXCEPT !.cyc[c] = End(L, "unconfigured")]
    ELSE [st EXCEPT !.cyc[c] = [L EXCEPT !.pc = "reload", !.message = message,
                                         !.isOurGeneration = TRUE]]

\* from the reload to await import('./ui.js'): the backup, the captures, the
\* placeholder on the captured copy, the two listeners.  The reload is
\* SillyTavern's; it is taken to hand back the chat that was in memory, the
\* same objects, so that message is still chat[messageId].
AfterReload(st, c, autoAdvanceToLatest) ==
    LET L == st.cyc[c]
        mid == L.messageId
        m0 == st.heap[L.message]
        currentText == m0.mes
        m1 == IF m0.hasSwipes /\ m0.swipe_id >= Len(m0.swipes)
              THEN [m0 EXCEPT !.swipe_id = 0] ELSE m0
        originalSwipeId == OrZero(m1.swipe_id)
        stateSwipes == IF m1.hasSwipes THEN m1.swipes ELSE <<m1.mes>>
        stateInfo == IF m1.hasInfo THEN m1.swipe_info ELSE <<>>
        m2 == IF m1.hasSwipes THEN m1
              ELSE [m1 EXCEPT !.hasSwipes = TRUE, !.swipes = <<m1.mes>>, !.swipe_id = 0]
        m3 == IF m2.hasInfo THEN m2
              ELSE [m2 EXCEPT !.hasInfo = TRUE,
                              !.swipe_info = [k \in 1..Len(m2.swipes) |-> m2.reasoning],
                              !.swipe_api = [k \in 1..Len(m2.swipes) |-> m2.api]]
        h1 == [st.heap EXCEPT ![L.message] = m3]
        originalSwipeText ==
            IF L.isUserMessage THEN Or(Elem(m3.swipes, originalSwipeId), currentText)
            ELSE Or(Elem(stateSwipes, originalSwipeId), currentText)
        originalSwipeExtra ==
            IF L.isUserMessage
            THEN (IF originalSwipeId >= 0 /\ originalSwipeId < Len(m3.swipe_info)
                  THEN [reasoning |-> m3.swipe_info[originalSwipeId + 1],
                        api |-> m3.swipe_api[originalSwipeId + 1]]
                  ELSE [reasoning |-> m3.reasoning, api |-> m3.api])
            ELSE (IF originalSwipeId >= 0 /\ originalSwipeId < Len(stateInfo)
                  THEN [reasoning |-> stateInfo[originalSwipeId + 1],
                        api |-> m1.swipe_api[originalSwipeId + 1]]
                  ELSE [reasoning |-> m1.reasoning, api |-> m1.api])
        chatSnapshot == Vals(h1, st.chat)
        captured0 == chatSnapshot[mid + 1]
        captured1 == IF captured0.hasSwipes THEN captured0
                     ELSE [captured0 EXCEPT !.hasSwipes = TRUE,
                                            !.swipes = <<captured0.mes>>,
                                            !.swipe_id = 0]
        captured2 == [captured1 EXCEPT !.swipes = Append(@, "")]
    IN [st EXCEPT
          !.backup = [live |-> TRUE, log |-> Vals(st.heap, st.chat)],
          !.heap = h1,
          !.traceL = @ \cup {c},
          !.stopL = Append(@, c),
          !.cyc[c] = [L EXCEPT
              !.pc = "import1",
              !.shouldAutoAdvance = autoAdvanceToLatest,
              !.currentText = currentText,
              !.originalSwipeId = originalSwipeId,
              !.originalSwipeText = originalSwipeText,
              !.originalSwipeExtra = originalSwipeExtra,
              !.capturedTargetMessage = captured2,
              !.capturedMessagesAfter = SubSeq(chatSnapshot, mid + 2, Len(chatSnapshot)),
              !.newSwipeIndex = Len(captured2.swipes) - 1,
              !.originalTargetMessage = At(st.chat, mid)]]

\* the scaffold entry carrying the direction for the engine
TempMessage == Message(TRUE, "prompt", FALSE, <<>>, 0, FALSE, <<>>, "", TRUE)

\* the cut of an assistant target applied to both roles
TruncateAtTarget(isUserMessage, messageId) == messageId

\* where the chat is cut: after a user target, before an assistant target
TruncateAt(isUserMessage, messageId) ==
    IF isUserMessage THEN messageId + 1 ELSE messageId

\* the elements of the hidden messages get the mesid stale-i, from the cut
\* up to the first index without an element
MarkLimit == 1000
RECURSIVE MarkStale(_, _, _)
MarkStale(tags, i, rendered) ==
    IF i < MarkLimit /\ i < rendered /\ i \notin tags
    THEN MarkStale(tags \cup {i}, i + 1, rendered) ELSE tags

\* the catch block gives the elements stale-i their mesid back, from the cut
\* up to the first index without a stale element
RestoreLimit == 100
RECURSIVE RestoreMesids(_, _)
RestoreMesids(tags, i) ==
    IF i < RestoreLimit /\ i \in tags
    THEN RestoreMesids(tags \ {i}, i + 1) ELSE tags

\* truncation, the temp message, and the call of Generate
AfterImport1(st, c) ==
    LET L == st.cyc[c]
        cut == SetLength(st.chat, TruncateAt(L.isUserMessage, L.messageId))
        cl == Clone([st EXCEPT !.chat = cut], <<TempMessage>>)
    IN [st EXCEPT !.heap = cl.heap, !.chat = cut \o cl.oids,
                  !.stale = MarkStale(@, TruncateAt(L.isUserMessage, L.messageId),
                                      Len(st.chat)),
                  !.cyc[c].pc = "generate",
                  !.cyc[c].engAppended = FALSE,
                  !.cyc[c].engStopped = FALSE]

\* the catch block, up to await import('./ui.js')
Catch(st, c) ==
    LET L == st.cyc[c]
        mid == L.messageId
        st1 == [st EXCEPT !.traceL = @ \ {c}, !.stopL = Without(@, c),
                          !.stale = RestoreMesids(@, TruncateAt(L.isUserMessage, mid)),
                          !.cyc[c].restores = @ + 1]
        removed == [st EXCEPT !.traceL = @ \ {c}, !.stopL = Without(@, c)]
    IN
    IF ~L.isOurGeneration THEN [removed EXCEPT !.cyc[c] = End(L, "threw")]
    ELSE IF L.abortCleanupDone THEN [st EXCEPT !.cyc[c] = End(L, "threw")]
    ELSE IF L.isUserMessage
    THEN LET cut == SetLength(st.chat, mid + 1)
             cl == Clone([st1 EXCEPT !.chat = cut], L.capturedMessagesAfter)
         IN [st1 EXCEPT !.heap = cl.heap,
                        !.chat = SpliceIn(cut, mid + 1, cl.oids),
                        !.cyc[c].pc = "catchImport"]
    ELSE LET cut == SetLength(st.chat, mid)
             back == IF L.originalTargetMessage # Null
                     THEN Append(cut, L.originalTargetMessage) ELSE cut
             cl == Clone([st1 EXCEPT !.chat = back], L.capturedMessagesAfter)
         IN [st1 EXCEPT !.heap = cl.heap,
                        !.chat = SpliceIn(back, mid + 1, cl.oids),
                        !.cyc[c].pc = "catchImport"]

\* the revert of the swipe at the end of the catch block
RevertSwipe(m) ==
    LET popped == Pop(m.swipes) IN
    [m EXCEPT !.swipes = popped,
              !.swipe_info = Pop(m.swipe_info),
              !.swipe_api = Pop(m.swipe_api),
              !.swipe_id = Max(0, Len(popped) - 1)]

\* the rest of the catch block: the swipe is reverted and the error rethrown
CatchAfterImport(st, c) ==
    LET L == st.cyc[c]
        revertTarget == IF L.isUserMessage THEN L.message
                        ELSE IF L.originalTargetMessage # Null
                        THEN L.originalTargetMessage
                        ELSE At(st.chat, L.messageId)
    IN IF revertTarget = Null \/ ~st.heap[revertTarget].hasSwipes
       THEN [st EXCEPT !.cyc[c] = End(L, "threw")]
       ELSE [st EXCEPT !.heap[revertTarget] = RevertSwipe(@),
                       !.cyc[c] = End(L, "threw")]

\* the hidden messages are put back from the captured copies
RestoreHidden(st, c) ==
    LET L == st.cyc[c]
        mid == L.messageId
    IN IF L.isUserMessage
       THEN LET cl == Clone(st, L.capturedMessagesAfter)
            IN [st EXCEPT !.heap = cl.heap,
                          !.chat = SpliceIn(st.chat, mid + 1, cl.oids)]
       ELSE LET clT == Clone(st, <<L.capturedTargetMessage>>)
                stT == [st EXCEPT !.heap = clT.heap,
                                  !.chat = SpliceIn(st.chat, mid, clT.oids)]
                clA == Clone(stT, L.capturedMessagesAfter)
            IN [stT EXCEPT !.heap = clA.heap,
                           !.chat = SpliceIn(stT.chat, mid + 1, clA.oids)]

\* the text of the new swipe is written at the reserved index
StoreSwipe(m, newSwipeIndex, trimmedText) ==
    LET withInfo == IF m.hasInfo THEN m
                    ELSE [m EXCEPT !.hasInfo = TRUE,
                                   !.swipe_info = [k \in 1..Len(m.swipes) |-> m.reasoning],
                                   !.swipe_api = [k \in 1..Len(m.swipes) |-> m.api]]
    IN [withInfo EXCEPT !.swipes = SetAt(@, newSwipeIndex, trimmedText)]

\* Generate() resolved: from the abort check to await getCurrentApiAndModel()
GenerateResolved(st, c) ==
    LET L == st.cyc[c]
        mid == L.messageId
        assistantMessage == At(st.chat, Len(st.chat) - 1)
    IN
    IF L.generationAborted
    THEN [st EXCEPT !.traceL = @ \ {c}, !.cyc[c] = End(L, "aborted")]
    ELSE IF assistantMessage = Null \/ st.heap[assistantMessage].is_user
    THEN Catch(st, c)
    ELSE
    LET generatedText == st.heap[assistantMessage].mes
        assistantReasoning == st.heap[assistantMessage].reasoning
        noAssistant == Without(st.chat, assistantMessage)
        noTemp == SelectSeq(noAssistant, LAMBDA o : ~IsTemp(st.heap, o))
        capturedReasoning ==
            IF Truthy(L.streamingReasoningData) THEN L.streamingReasoningData
            ELSE IF Truthy(assistantReasoning) THEN assistantReasoning ELSE ""
        restored == RestoreHidden([st EXCEPT !.chat = noTemp], c)
        tempIndexAfter == FirstTempIndex(restored.heap, restored.chat)
        emergency == IF tempIndexAfter # -1
                     THEN SpliceOut(restored.chat, tempIndexAfter)
                     ELSE restored.chat
        st1 == [restored EXCEPT
                  !.chat = emergency,
                  !.stale = {},
                  !.traceL = @ \ {c},
                  !.cyc[c].originalTargetMessage = At(restored.chat, mid),
                  !.cyc[c].capturedReasoning = capturedReasoning]
        actualTargetMessage == At(st1.chat, mid)
    IN
    IF ~(Truthy(generatedText) /\ Truthy(Trim(generatedText))) THEN Catch(st1, c)
    ELSE IF actualTargetMessage = Null \/ ~st1.heap[actualTargetMessage].hasSwipes
    THEN Catch(st1, c)
    ELSE [st1 EXCEPT
            !.heap[actualTargetMessage] =
                StoreSwipe(@, L.newSwipeIndex, Trim(generatedText)),
            !.cyc[c].actualTargetMessage = actualTargetMessage,
            !.cyc[c].pc = "apiModel"]

\* Generate() rejected
GenerateRejected(st, c) == Catch(st, c)

\* what getCurrentApiAndModel() answers
CurrentApi == "m1"

\* swipe_info.push for the new swipe, up to the next await import
AfterApiModel(st, c) ==
    LET L == st.cyc[c]
        a == st.heap[L.actualTargetMessage]
        swipeInfoExtra == IF Truthy(L.capturedReasoning) THEN L.capturedReasoning
                          ELSE a.reasoning
    IN [st EXCEPT !.heap[L.actualTargetMessage].swipe_info = Append(@, swipeInfoExtra),
                  !.heap[L.actualTargetMessage].swipe_api = Append(@, CurrentApi),
                  !.cyc[c].pc = "import2"]

\* an advance that moves the index and leaves the text displayed before
AdvanceIndexOnly(m, newSwipeIndex) == [m EXCEPT !.swipe_id = newSwipeIndex]

\* what the message displays after the commit
Advance(m, newSwipeIndex) ==
    [m EXCEPT !.swipe_id = newSwipeIndex,
              !.mes = Elem(m.swipes, newSwipeIndex),
              !.reasoning = IF newSwipeIndex < Len(m.swipe_info)
                            THEN m.swipe_info[newSwipeIndex + 1] ELSE @,
              !.api = IF newSwipeIndex < Len(m.swipe_api)
                      THEN m.swipe_api[newSwipeIndex + 1] ELSE @]

\* the display moved to the last swipe where it should have stayed
ShowLatest(m, originalSwipeId, originalSwipeText, originalSwipeExtra) ==
    [m EXCEPT !.swipe_id = Len(m.swipes) - 1,
              !.mes = Elem(m.swipes, Len(m.swipes) - 1)]

\* the display is reset to the swipe shown before the cycle
StayOnOriginal(m, originalSwipeId, originalSwipeText, originalSwipeExtra) ==
    [m EXCEPT !.swipe_id = originalSwipeId,
              !.mes = originalSwipeText,
              !.reasoning = originalSwipeExtra.reasoning,
              !.api = originalSwipeExtra.api]

\* the display policy is applied, up to the await import that follows
AfterImport2(st, c) ==
    LET L == st.cyc[c]
        targetMessage == IF L.isUserMessage THEN L.message
                         ELSE IF L.originalTargetMessage # Null
                         THEN L.originalTargetMessage
                         ELSE At(st.chat, L.messageId)
    IN [st EXCEPT
          !.heap[targetMessage] =
              IF L.shouldAutoAdvance THEN Advance(@, L.newSwipeIndex)
              ELSE StayOnOriginal(@, L.originalSwipeId, L.originalSwipeText,
                                  L.originalSwipeExtra),
          !.cyc[c].targetMessage = targetMessage,
          !.cyc[c].pc = "import3"]

\* the message is rendered and the chat saved: await saveChatConditional()
AfterImport3(st, c, k) ==
    LET L == st.cyc[c]
        st1 == IF L.shouldAutoAdvance THEN st
               ELSE [st EXCEPT !.heap[L.targetMessage] =
                                   syncReasoningFromSwipeInfo(@, L.originalSwipeId)]
    IN [saveChat(st1, k) EXCEPT !.cyc[c].pc = "save"]

\* the return after the save without the removal of the abort listener
AfterSaveKeepsListener(st, c) == [st EXCEPT !.cyc[c] = End(st.cyc[c], "committed")]

\* the save returned: the abort listener is removed and the call returns
AfterSave(st, c) ==
    [st EXCEPT !.stopL = Without(@, c), !.cyc[c] = End(st.cyc[c], "committed")]

\* performAbortCleanup after printMessages: the backup is cleared and the
\* chat saved
CleanupAfterPrint(st, c, k) ==
    LET st1 == [st EXCEPT !.backup = [live |-> FALSE, log |-> <<>>]]
    IN [saveChat(st1, k) EXCEPT !.cyc[c].clean = "save", !.cyc[c].saves = @ + 1]

CleanupAfterSave(st, c) == [st EXCEPT !.cyc[c].clean = "done"]

(***************************************************************************)
(* What the engine may produce: a text (empty, blank, or to be trimmed)    *)
(* with or without a reasoning of its own, and trace segments.             *)
(***************************************************************************)
GenTexts == {"", " ", "g "}
GenReasonings == {"", "re"}
Traces == {"r1", "r2"}

RECURSIVE EmitStopped(_, _)
EmitStopped(st, ls) ==
    IF ls = <<>> THEN st ELSE EmitStopped(abortHandler(st, Head(ls)), Tail(ls))

RECURSIVE EmitReasoningDone(_, _, _)
EmitReasoningDone(st, cs, reasoning) ==
    IF cs = {} THEN st
    ELSE LET c == CHOOSE x \in cs : TRUE
         IN EmitReasoningDone(reasoningEventHandler(st, c, reasoning), cs \ {c}, reasoning)

(***************************************************************************)
(* Actions.                                                                *)
(***************************************************************************)
InFlight(c) == cyc[c].pc \notin {"idle", "done"}

\* dswipeForward(args, messageId): a swipe is requested on a message while no
\* other call is in flight (on an empty slot of the array the read of
\* message.is_user throws before anything is done)
dswipeForward(c, messageId) ==
    /\ cyc[c].pc = "idle"
    /\ \A d \in Cycles : d < c => cyc[d].pc # "idle"
    /\ \A d \in Cycles : ~InFlight(d)
    /\ isValidMessageId(messageId, chat)
    /\ At(chat, messageId) # Null
    /\ \E promptInspectorEnabled \in BOOLEAN, impersonationPrompt \in BOOLEAN :
          Becomes(generateMessageSwipe(State, c, At(chat, messageId), messageId,
                                       heap[At(chat, messageId)].is_user,
                                       promptInspectorEnabled, impersonationPrompt))

\* (with the target no longer at chat[messageId] the copy of it throws
\* before anything is done)
ReloadReturns(c) ==
    /\ cyc[c].pc = "reload"
    /\ At(chat, cyc[c].messageId) # Null
    /\ \E autoAdvanceToLatest \in BOOLEAN :
          Becomes(AfterReload(State, c, autoAdvanceToLatest))

OverlayImported(c) ==
    /\ cyc[c].pc = "import1"
    /\ Becomes(AfterImport1(State, c))

\* the engine appends its message at the tail of the chat
EngineAppends(c) ==
    /\ cyc[c].pc = "generate"
    /\ ~cyc[c].engAppended
    /\ ~cyc[c].engStopped
    /\ \E t \in GenTexts, r \in GenReasonings :
          LET cl == Clone(State, <<Message(FALSE, t, FALSE, <<>>, 0, FALSE, <<>>, r, FALSE)>>)
          IN Becomes([State EXCEPT !.heap = cl.heap, !.chat = chat \o cl.oids,
                                   !.cyc[c].engAppended = TRUE,
                                   !.cyc[c].generated = t])

\* the engine emits STREAM_REASONING_DONE
EngineTraces(c) ==
    /\ cyc[c].pc = "generate"
    /\ ~cyc[c].engStopped
    /\ \E r \in Traces : Becomes(EmitReasoningDone(State, traceListeners, r))

\* GENERATION_STOPPED is emitted (the stop button of the overlay, or any other
\* stop): the running engine calls stop and every listener runs
GenerationStopped ==
    /\ stopListeners # <<>>
    /\ LET stopped == [State EXCEPT !.cyc = [c \in DOMAIN cyc |->
                           IF cyc[c].pc = "generate"
                           THEN [cyc[c] EXCEPT !.engStopped = TRUE] ELSE cyc[c]]]
       IN Becomes(EmitStopped(stopped, stopListeners))

GenerateReturns(c) ==
    /\ cyc[c].pc = "generate"
    /\ Becomes(GenerateResolved([State EXCEPT !.cyc[c].resolved = TRUE], c))

GenerateThrows(c) ==
    /\ cyc[c].pc = "generate"
    /\ Becomes(GenerateRejected(State, c))

CatchImported(c) ==
    /\ cyc[c].pc = "catchImport"
    /\ Becomes(CatchAfterImport(State, c))

ApiModelReturns(c) ==
    /\ cyc[c].pc = "apiModel"
    /\ Becomes(AfterApiModel(State, c))

CompletionImported(c) ==
    /\ cyc[c].pc = "import2"
    /\ Becomes(AfterImport2(State, c))

RenderImported(c) ==
    /\ cyc[c].pc = "import3"
    /\ \E k \in 0..Len(chat) :
          /\ CanCorrupt(State, k)
          /\ Becomes(AfterImport3(State, c, k))

SaveReturns(c) ==
    /\ cyc[c].pc = "save"
    /\ Becomes(AfterSave(State, c))

PrintMessagesReturns(c) ==
    /\ cyc[c].clean = "print"
    /\ \E k \in 0..Len(chat) :
          /\ CanCorrupt(State, k)
          /\ Becomes(CleanupAfterPrint(State, c, k))

CleanupSaveReturns(c) ==
    /\ cyc[c].clean = "save"
    /\ Becomes(CleanupAfterSave(State, c))

Next ==
    \/ \E c \in Cycles, messageId \in 0..(MaxLen - 1) : dswipeForward(c, messageId)
    \/ \E c \in Cycles : ReloadReturns(c)
    \/ \E c \in Cycles : OverlayImported(c)
    \/ \E c \in Cycles : EngineAppends(c)
    \/ \E c \in Cycles : EngineTraces(c)
    \/ GenerationStopped
    \/ \E c \in Cycles : GenerateReturns(c)
    \/ \E c \in Cycles : GenerateThrows(c)
    \/ \E c \in Cycles : CatchImported(c)
    \/ \E c \in Cycles : ApiModelReturns(c)
    \/ \E c \in Cycles : CompletionImported(c)
    \/ \E c \in Cycles : RenderImported(c)
    \/ \E c \in Cycles : SaveReturns(c)
    \/ \E c \in Cycles : PrintMessagesReturns(c)
    \/ \E c \in Cycles : CleanupSaveReturns(c)

Spec == Init /\ [][Next]_vars

\* the same cycle started on a chat whose swipe ids were damaged
SpecCorrupt == InitCorrupt /\ [][Next]_vars

(***************************************************************************)
(* Navigation between existing swipes: dswipeBack (the /dswipe back        *)
(* command, the left arrow) and the click handler of the right arrow.      *)
(* context.swipe.left and context.swipe.right are SillyTavern's: a call    *)
(* either throws, or displays the swipe it was asked for; swipe.right may  *)
(* instead leave swipe_id at 0, the case the click handler repairs.        *)
(***************************************************************************)
\* the locals of a navigation die when it returns; what the properties read
\* of it is kept
NavEnd(N, outcome) ==
    [IdleNav EXCEPT !.command = N.command, !.outcome = outcome]

\* message.swipe_id = id; message.mes = message.swipes[id]
ShowSwipe(m, id) == [m EXCEPT !.swipe_id = id, !.mes = Elem(m.swipes, id)]

handleUserSwipeBack(st, message, messageId, targetSwipeId, messagesToRestore) ==
    LET m == syncReasoningFromSwipeInfo(ShowSwipe(st.heap[message], targetSwipeId),
                                        targetSwipeId)
    IN [st EXCEPT !.heap[message] = m, !.chat = @ \o messagesToRestore]

\* what context.swipe.left / context.swipe.right do to the message when they
\* display swipe forceSwipeId
nativeSwipe(m, forceSwipeId) ==
    LET shown == syncReasoningFromSwipeInfo(ShowSwipe(m, forceSwipeId), forceSwipeId)
    IN IF m.hasInfo /\ forceSwipeId >= 0 /\ forceSwipeId < Len(m.swipe_api)
       THEN [shown EXCEPT !.api = m.swipe_api[forceSwipeId + 1]]
       ELSE shown

\* the target without the clamp at 0
BackTargetUnclamped(currentId) == currentId - 1

\* Math.max(0, currentId - 1)
BackTarget(currentId) == Max(0, currentId - 1)

\* dswipeBack from its entry to its return or to await context.swipe.left
BackEntry(st, messageId) ==
    LET N == [IdleNav EXCEPT !.command = "back", !.messageId = messageId]
        message == At(st.chat, messageId)
        m == st.heap[message]
        targetSwipeId == BackTarget(m.swipe_id)
        messagesToRestore == SubSeq(st.chat, messageId + 2, Len(st.chat))
        cut == [st EXCEPT !.chat = SetLength(@, messageId + 1)]
        T == [N EXCEPT !.targetSwipeId = targetSwipeId]
    IN IF ~m.hasSwipes \/ Len(m.swipes) <= 1
       THEN [st EXCEPT !.nav = NavEnd(N, "noSwipes")]
       ELSE IF m.is_user
       THEN [handleUserSwipeBack(cut, message, messageId, targetSwipeId, messagesToRestore)
                EXCEPT !.nav = NavEnd(T, "navigated")]
       ELSE [cut EXCEPT !.nav = [T EXCEPT !.pc = "swipeLeft", !.message = message,
                                          !.messagesToRestore = messagesToRestore]]

\* a return of context.swipe.left after which the hidden messages stay out
AfterSwipeLeftKeepsHidden(st) ==
    LET N == st.nav IN
    [st EXCEPT !.heap[N.message] = nativeSwipe(@, N.targetSwipeId),
               !.nav = NavEnd(N, "navigated")]

\* dswipeBack after context.swipe.left has returned
AfterSwipeLeft(st) ==
    LET N == st.nav IN
    [st EXCEPT !.heap[N.message] = nativeSwipe(@, N.targetSwipeId),
               !.chat = @ \o N.messagesToRestore,
               !.nav = NavEnd(N, "navigated")]

\* a catch block that forgets the hidden messages
SwipeFailedLosesHidden(st) == [st EXCEPT !.nav = NavEnd(st.nav, "threw")]

\* the catch block of dswipeBack and of the click handler
SwipeFailed(st) ==
    [st EXCEPT !.chat = @ \o st.nav.messagesToRestore,
               !.nav = NavEnd(st.nav, "threw")]

\* a rejection that takes the id for that of the last message and hides it
RejectInvalidClamped(st, command, messageId) ==
    [st EXCEPT !.chat = Pop(st.chat),
               !.nav = NavEnd([IdleNav EXCEPT !.command = command], "invalid")]

\* the return of dswipeBack and dswipeForward for an invalid message id
RejectInvalid(st, command, messageId) ==
    [st EXCEPT !.nav = NavEnd([IdleNav EXCEPT !.command = command], "invalid")]

\* the right arrow taken to ask for a new swipe wherever the message stands
AtAnySwipe(m) == TRUE

\* the right arrow taken never to ask for a new swipe
AtNoSwipe(m) == FALSE

\* currentId >= totalSwipes - 1 : the right arrow asks for a new swipe
AtLastSwipe(m) ==
    LET totalSwipes == IF m.hasSwipes /\ Len(m.swipes) > 0 THEN Len(m.swipes) ELSE 1
    IN m.swipe_id >= totalSwipes - 1

\* the click handler of the right arrow when the message is not at its last
\* swipe: to its return (user message) or to await ctx.swipe.right
ForwardNavigate(st, messageId) ==
    LET msg == At(st.chat, messageId)
        m == st.heap[msg]
        targetSwipeId == m.swipe_id + 1
        N == [IdleNav EXCEPT !.command = "right", !.messageId = messageId,
                             !.targetSwipeId = targetSwipeId]
    IN IF m.is_user
       THEN [st EXCEPT !.heap[msg] = syncReasoningFromSwipeInfo(
                                         ShowSwipe(m, targetSwipeId), targetSwipeId),
                       !.nav = NavEnd(N, "navigated")]
       ELSE [st EXCEPT !.chat = SetLength(@, messageId + 1),
                       !.nav = [N EXCEPT !.pc = "swipeRight", !.message = msg,
                                         !.messagesToRestore =
                                             SubSeq(st.chat, messageId + 2, Len(st.chat))]]

\* the click handler after ctx.swipe.right has returned; honoured tells
\* whether the native swipe displayed the swipe it was asked for
AfterSwipeRight(st, honoured) ==
    LET N == st.nav
        h1 == [st.heap EXCEPT ![N.message] =
                   IF honoured THEN nativeSwipe(@, N.targetSwipeId)
                   ELSE nativeSwipe(@, 0)]
        ch == st.chat \o N.messagesToRestore
        updatedMsg == At(ch, N.messageId)
        u == h1[updatedMsg]
        u1 == IF u.swipe_id # N.targetSwipeId THEN ShowSwipe(u, N.targetSwipeId) ELSE u
    IN [st EXCEPT !.heap = [h1 EXCEPT ![updatedMsg] =
                               syncReasoningFromSwipeInfo(u1, N.targetSwipeId)],
                  !.chat = ch,
                  !.nav = NavEnd(N, "navigated")]

\* the ids a request may carry: those of the chat, and -1, the length of the
\* longest chat, and NaN
MessageIds == {NaN} \cup (-1..MaxLen)

\* no call is suspended and no recovery is running
Quiet ==
    /\ nav.pc = "idle"
    /\ \A c \in Cycles : ~InFlight(c) /\ cyc[c].clean \in {"none", "done"}

\* dswipeBack or dswipeForward is called with an invalid message id
InvalidMessageId(command, messageId) ==
    /\ nav.pc = "idle"
    /\ ~isValidMessageId(messageId, chat)
    /\ Becomes(RejectInvalid(State, command, messageId))

\* dswipeBack(args, messageId): /dswipe back, or a click on the left arrow
dswipeBack(messageId) ==
    /\ nav.pc = "idle"
    /\ isValidMessageId(messageId, chat)
    /\ At(chat, messageId) # Null
    /\ Becomes(BackEntry(State, messageId))

SwipeLeftReturns ==
    /\ nav.pc = "swipeLeft"
    /\ Becomes(AfterSwipeLeft(State))

SwipeLeftThrows ==
    /\ nav.pc = "swipeLeft"
    /\ Becomes(SwipeFailed(State))

\* a click on the right arrow of message messageId; the arrow is there for a
\* message that was swipeable when it was rendered
RightArrowClick(c, messageId) ==
    /\ nav.pc = "idle"
    /\ isValidMessageId(messageId, chat)
    /\ At(chat, messageId) # Null
    /\ \E userSwipes \in BOOLEAN :
          isMessageSwipeable(heap[At(chat, messageId)], userSwipes)
    /\ LET msg == At(chat, messageId)
           N == [IdleNav EXCEPT !.command = "right", !.messageId = messageId]
       IN IF AtLastSwipe(heap[msg])
          THEN \E promptInspectorEnabled \in BOOLEAN, impersonationPrompt \in BOOLEAN :
                  IF promptInspectorEnabled
                  THEN Becomes([State EXCEPT !.nav = NavEnd(N, "refused")])
                  ELSE /\ cyc[c].pc = "idle"
                       /\ \A d \in Cycles : d < c => cyc[d].pc # "idle"
                       /\ Becomes(generateMessageSwipe(
                                     [State EXCEPT !.nav = NavEnd(N, "generation")],
                                     c, msg, messageId, heap[msg].is_user,
                                     FALSE, impersonationPrompt))
          ELSE Becomes(ForwardNavigate(State, messageId))

SwipeRightReturns ==
    /\ nav.pc = "swipeRight"
    /\ \E honoured \in BOOLEAN : Becomes(AfterSwipeRight(State, honoured))

SwipeRightThrows ==
    /\ nav.pc = "swipeRight"
    /\ Becomes(SwipeFailed(State))

(***************************************************************************)
(* The chats of the navigation: those of Init, with at most one message    *)
(* that is a system message or is flagged extra.swipeable = false.         *)
(***************************************************************************)
Marks == {"none", "system", "flagged"}

MarkedMessage(k, isUser, shape, mark) ==
    [InitMessage(k, isUser, shape) EXCEPT !.is_system = (mark = "system"),
                                          !.swipeable = (mark # "flagged")]

InitFrom(shapes) ==
    \E firstIsUser \in BOOLEAN, shape \in shapes, marked \in 1..MaxLen, mark \in Marks :
        LET first(k) == MarkedMessage(k, (k % 2 = 1) = firstIsUser, shape,
                                      IF k = marked THEN mark ELSE "none")
        IN /\ chat = [k \in 1..MaxLen |-> k]
           /\ heap = [o \in Oids |-> IF o <= MaxLen THEN first(o) ELSE Free]
           /\ cyc = [c \in Cycles |-> IdleCycle]
           /\ chatBackupBeforeGeneration = [live |-> FALSE, log |-> <<>>]
           /\ stopListeners = <<>>
           /\ traceListeners = {}
           /\ persisted = [k \in 1..MaxLen |-> first(k)]
           /\ corrupted = {}
           /\ nav = IdleNav
           /\ stale = {}

InitNav == InitFrom(Shapes)

\* the chats in which every message has two swipes
InitOverlap == InitFrom({"first", "last"})

\* a generation cycle up to its call of Generate
CycleStarts ==
    \/ \E c \in Cycles : ReloadReturns(c)
    \/ \E c \in Cycles : OverlayImported(c)

\* the steps of a navigation suspended at a native swipe
NavSteps ==
    \/ SwipeLeftReturns
    \/ SwipeLeftThrows
    \/ SwipeRightReturns
    \/ SwipeRightThrows

\* requests that arrive one at a time, each after the one before has ended;
\* a request for a new swipe is followed no further than its acceptance
NextNav ==
    \/ \E c \in Cycles, messageId \in 0..(MaxLen - 1) :
          Quiet /\ dswipeForward(c, messageId)
    \/ \E messageId \in MessageIds : Quiet /\ InvalidMessageId("forward", messageId)
    \/ \E messageId \in MessageIds : Quiet /\ InvalidMessageId("back", messageId)
    \/ \E messageId \in 0..(MaxLen - 1) : Quiet /\ dswipeBack(messageId)
    \/ \E c \in Cycles, messageId \in 0..(MaxLen - 1) :
          Quiet /\ RightArrowClick(c, messageId)
    \/ NavSteps

SpecNav == InitNav /\ [][NextNav]_vars

\* no navigation has been asked for yet
FirstNavigation == nav.command = "none"

\* a request for a new swipe and one navigation, each arriving at any time,
\* the generation cycle being followed up to its call of Generate
NextOverlap ==
    \/ \E c \in Cycles, messageId \in 0..(MaxLen - 1) : dswipeForward(c, messageId)
    \/ \E messageId \in 0..(MaxLen - 1) : FirstNavigation /\ dswipeBack(messageId)
    \/ \E c \in Cycles, messageId \in 0..(MaxLen - 1) :
          FirstNavigation /\ RightArrowClick(c, messageId)
    \/ NavSteps
    \/ CycleStarts

SpecOverlap == InitOverlap /\ [][NextOverlap]_vars

(***************************************************************************)
(* Two requests for a new swipe whose calls overlap: nothing in            *)
(* dswipeForward or generateMessageSwipe keeps a second call from starting *)
(* while the first is suspended at one of its awaits.  Both calls share    *)
(* the chat and the module-level chatBackupBeforeGeneration.               *)
(***************************************************************************)
Overlapping == 1..(MaxCycles + 1)

InitTwice ==
    \E firstIsUser \in BOOLEAN, shape \in {"last"} :
        /\ chat = [k \in 1..MaxLen |-> k]
        /\ heap = [o \in Oids |->
                     IF o <= MaxLen
                     THEN InitMessage(o, (o % 2 = 1) = firstIsUser, shape)
                     ELSE Free]
        /\ cyc = [c \in Overlapping |-> IdleCycle]
        /\ chatBackupBeforeGeneration = [live |-> FALSE, log |-> <<>>]
        /\ stopListeners = <<>>
        /\ traceListeners = {}
        /\ persisted = [k \in 1..MaxLen |->
                          InitMessage(k, (k % 2 = 1) = firstIsUser, shape)]
        /\ corrupted = {}
        /\ nav = IdleNav
        /\ stale = {}

\* dswipeForward(args, messageId) while another call is suspended, with the
\* prompt inspector off and an impersonation prompt configured
dswipeForwardDuring(c, messageId) ==
    /\ cyc[c].pc = "idle"
    /\ \A d \in DOMAIN cyc : d < c => cyc[d].pc # "idle"
    /\ \E d \in DOMAIN cyc : InFlight(d)
    /\ isValidMessageId(messageId, chat)
    /\ At(chat, messageId) # Null
    /\ Becomes(generateMessageSwipe(State, c, At(chat, messageId), messageId,
                                    heap[At(chat, messageId)].is_user, FALSE, TRUE))

\* two accepted requests, the second arriving while the first is in flight,
\* and both generations stopped before the engine appended its message:
\* Generate() returns or throws only after the stop, and every save keeps
\* the texts
NextTwice ==
    \/ \E messageId \in 0..(MaxLen - 1) :
          dswipeForward(1, messageId) /\ cyc'[1].pc = "reload"
    \/ \E c \in Overlapping, messageId \in 0..(MaxLen - 1) : dswipeForwardDuring(c, messageId)
    \/ \E c \in Overlapping : ReloadReturns(c) /\ cyc'[c].shouldAutoAdvance
    \/ \E c \in Overlapping : OverlayImported(c)
    \/ GenerationStopped
    \/ \E c \in Overlapping : cyc[c].generationAborted /\ GenerateReturns(c)
    \/ \E c \in Overlapping : cyc[c].generationAborted /\ GenerateThrows(c)
    \/ \E c \in Overlapping : PrintMessagesReturns(c) /\ corrupted' = {}
    \/ \E c \in Overlapping : CleanupSaveReturns(c)

SpecTwice == InitTwice /\ [][NextTwice]_vars

(***************************************************************************)
(* The vocabulary of the properties.  An entry of the log is a message: its *)
(* content is mes, its activeIndex swipe_id, and its alternatives are its  *)
(* swipes, a message without a swipes array having its text as its only    *)
(* alternative.                                                            *)
(***************************************************************************)
Log == Vals(heap, chat)

Alternatives(m) == IF m.hasSwipes THEN m.swipes ELSE <<m.mes>>

SameEntry(a, b) ==
    /\ a.is_user = b.is_user
    /\ a.isDeepSwipeTemp = b.isDeepSwipeTemp
    /\ a.mes = b.mes
    /\ a.swipe_id = b.swipe_id
    /\ Alternatives(a) = Alternatives(b)

SameLog(l, m) ==
    /\ Len(l) = Len(m)
    /\ \A k \in 1..Len(l) : SameEntry(l[k], m[k])

CallEnded(c) == cyc[c].pc = "done"

Cancelled(c) == cyc[c].generationAborted

RecoveryFinished(c) == cyc[c].clean \in {"none", "done"}

\* no save has emptied the text of a message of the chat
NoSaveDamage == corrupted = {}

\* the positions (1-based) of the entries the truncation of cycle c hides
Hidden(c) ==
    (TruncateAt(cyc[c].isUserMessage, cyc[c].messageId) + 1)..Len(cyc[c].pre)

\* C1: a cycle cancelled by GENERATION_STOPPED at any of its awaits leaves,
\* once the recovery has finished and the call has ended, a log with the
\* length, the contents, the alternatives and the activeIndex of the log the
\* cycle started from (stated for the runs in which no save damaged an entry)
C1_CancelRestoresLog ==
    \A c \in Cycles :
        (Cancelled(c) /\ CallEnded(c) /\ RecoveryFinished(c) /\ NoSaveDamage)
            => SameLog(Log, cyc[c].pre)

\* a cancelled cycle whose recovery ran before the truncation: the call has
\* ended on a log that is shorter than the one it started from
C1_EarlyHaltLeavesTruncated ==
    \E c \in Cycles :
        /\ Cancelled(c) /\ CallEnded(c) /\ RecoveryFinished(c) /\ NoSaveDamage
        /\ Len(chat) < Len(cyc[c].pre)

\* C2: whenever generateMessageSwipe has returned or thrown, by any path, the
\* log is not left truncated: at each position the truncation hid there is
\* again a message of the role that was there, which is no temp message
C2_NotLeftTruncated ==
    \A c \in Cycles :
        CallEnded(c) =>
            \A k \in Hidden(c) :
                /\ k <= Len(chat)
                /\ ~Log[k].isDeepSwipeTemp
                /\ Log[k].is_user = cyc[c].pre[k].is_user

\* C3: after a cycle on message i completed successfully the log has its
\* pre-cycle length, every other entry equals its pre-cycle value, and the
\* alternatives of entry i are the pre-cycle ones followed by exactly one new
\* element, the generated text
C3_SuccessAddsOneAlternative ==
    \A c \in Cycles :
        (CallEnded(c) /\ cyc[c].result = "committed" /\ ~Cancelled(c)) =>
            LET i == cyc[c].messageId + 1 IN
            /\ Len(Log) = Len(cyc[c].pre)
            /\ \A k \in 1..Len(Log) : k # i => SameEntry(Log[k], cyc[c].pre[k])
            /\ Alternatives(Log[i]) =
                   Append(Alternatives(cyc[c].pre[i]), Trim(cyc[c].generated))

\* the same, for the runs in which no save damaged an entry
C3_SuccessWithoutSaveDamage ==
    \A c \in Cycles :
        (CallEnded(c) /\ cyc[c].result = "committed" /\ ~Cancelled(c) /\ NoSaveDamage) =>
            LET i == cyc[c].messageId + 1 IN
            /\ Len(Log) = Len(cyc[c].pre)
            /\ \A k \in 1..Len(Log) : k # i => SameEntry(Log[k], cyc[c].pre[k])
            /\ Alternatives(Log[i]) =
                   Append(Alternatives(cyc[c].pre[i]), Trim(cyc[c].generated))

\* the log is the pre-cycle log with one alternative more on the target
FullyCommitted(c) ==
    LET i == cyc[c].messageId + 1 IN
    /\ Len(Log) = Len(cyc[c].pre)
    /\ \A k \in 1..Len(Log) : k # i => SameEntry(Log[k], cyc[c].pre[k])
    /\ Log[i].is_user = cyc[c].pre[i].is_user
    /\ ~Log[i].isDeepSwipeTemp
    /\ Alternatives(Log[i]) =
           Append(Alternatives(cyc[c].pre[i]), Trim(cyc[c].generated))

FullyRecovered(c) == SameLog(Log, cyc[c].pre)

\* C4: when a cycle has ended (the call and any recovery it started), the log
\* is either the pre-cycle log or the pre-cycle log with the one new
\* alternative on the target (stated for the runs in which no save damaged an
\* entry)
C4_RecoveredOrCommitted ==
    \A c \in Cycles :
        (CallEnded(c) /\ RecoveryFinished(c) /\ NoSaveDamage)
            => (FullyRecovered(c) \/ FullyCommitted(c))

\* the part of C4 about a stop delivered after Generate() returned: the cycle
\* was in its commit when it was cancelled
C4_LateHaltRecoveredOrCommitted ==
    \A c \in Cycles :
        (CallEnded(c) /\ RecoveryFinished(c) /\ NoSaveDamage
            /\ Cancelled(c) /\ cyc[c].result = "committed")
            => (FullyRecovered(c) \/ FullyCommitted(c))

\* C5: immediately after the commit under the policy "stay on original"
\* (autoAdvanceToLatest off) the target shows its pre-cycle text and its
\* pre-cycle swipe_id while it has exactly one alternative more; unless the
\* cycle was cancelled, that target is the entry of the log at messageId
C5_StayOnOriginalKeepsDisplay ==
    [][\A c \in Cycles :
          (cyc[c].pc = "import2" /\ cyc'[c].pc = "import3" /\ ~cyc[c].shouldAutoAdvance) =>
              LET t == heap'[cyc'[c].targetMessage]
                  p == cyc[c].pre[cyc[c].messageId + 1]
              IN /\ t.mes = p.mes
                 /\ t.swipe_id = p.swipe_id
                 /\ Len(Alternatives(t)) = Len(Alternatives(p)) + 1
                 /\ (~cyc'[c].generationAborted
                        => At(chat', cyc[c].messageId) = cyc'[c].targetMessage)]_vars

\* a commit under "stay on original" has just been made on a message that
\* displayed its second alternative, in a cycle that was not cancelled
C5_Witness ==
    \E c \in Cycles :
        /\ cyc[c].pc = "import3" /\ ~cyc[c].shouldAutoAdvance /\ ~Cancelled(c)
        /\ cyc[c].originalSwipeId = 1
        /\ Len(heap[cyc[c].targetMessage].swipes) = 3

\* C6: the temp message never reaches the persisted state or the final log:
\* what any save stored holds no temp message, and when a call has ended the
\* log holds none
C6_NoTempPersistedOrLeft ==
    /\ \A k \in 1..Len(persisted) : ~persisted[k].isDeepSwipeTemp
    /\ \A c \in Cycles :
          CallEnded(c) => \A k \in 1..Len(chat) : ~Log[k].isDeepSwipeTemp

\* C7: when a save emptied the text of a message, then once the save has
\* returned every entry has the text it had before the save
C7_SaveSequenceRestores ==
    (\A c \in Cycles : cyc[c].pc # "save" /\ cyc[c].clean # "save") =>
        \A k \in 1..Len(chat) : chat[k] \in corrupted => heap[chat[k]].mes # ""

\* C8: the recovery of a cycle puts the log back and saves it at most once,
\* whatever signals and errors follow one another; performAbortCleanup
\* invoked again changes nothing, and invoked twice in a row does what one
\* invocation does
C8_RecoveryRunsOnce ==
    \A c \in Cycles :
        /\ cyc[c].restores <= 1
        /\ cyc[c].saves <= 1
        /\ cyc[c].abortCleanupDone => performAbortCleanup(State, c) = State
        /\ (\E k \in 1..Len(stopListeners) : stopListeners[k] = c) =>
              LET once == performAbortCleanup(State, c)
              IN performAbortCleanup(once, c) = once

\* the stop was delivered and then Generate() threw: the catch block found
\* the recovery done, and the recovery has saved
C8_Witness ==
    \E c \in Cycles :
        /\ cyc[c].result = "threw" /\ cyc[c].abortCleanupDone
        /\ cyc[c].restores = 1 /\ cyc[c].saves = 1 /\ cyc[c].clean = "done"

\* C9: immediately after the truncation the visible prefix (the chat before
\* the temp message) is the first i+1 messages for a user target at i and
\* the first i messages for an assistant target at i
C9_TruncationPoint ==
    [][\A c \in Cycles :
          (cyc[c].pc = "import1" /\ cyc'[c].pc = "generate") =>
              LET i == cyc[c].messageId
                  n == IF cyc[c].pre[i + 1].is_user THEN i + 1 ELSE i
              IN /\ Len(chat') = n + 1
                 /\ \A k \in 1..Min(n, Len(chat)) : chat'[k] = chat[k]
                 /\ IsTemp(heap', chat'[n + 1])]_vars

\* the chat was just cut for an assistant target that is not the first
\* message: the target and what follows are hidden
C9_Witness ==
    \E c \in Cycles :
        /\ cyc[c].pc = "generate" /\ ~cyc[c].engAppended /\ ~Cancelled(c)
        /\ ~cyc[c].isUserMessage /\ cyc[c].messageId = 1
        /\ Len(chat) = 2 /\ IsTemp(heap, chat[2])

\* C10: the placeholder reserved at the start of the cycle and discarded on
\* the failure path leaves the target with the alternatives it had
C10_DiscardOnFailureKeepsAlternatives ==
    \A c \in Cycles :
        (CallEnded(c) /\ cyc[c].result = "threw" /\ ~Cancelled(c)) =>
            LET i == cyc[c].messageId + 1 IN
            /\ i <= Len(chat)
            /\ Alternatives(Log[i]) = Alternatives(cyc[c].pre[i])

\* the same on the cancel path, when the stop came while Generate() was
\* running and no save damaged an entry
C10_DiscardOnCancelKeepsAlternatives ==
    \A c \in Cycles :
        (CallEnded(c) /\ Cancelled(c) /\ RecoveryFinished(c) /\ NoSaveDamage
            /\ cyc[c].engStopped) =>
            LET i == cyc[c].messageId + 1 IN
            Alternatives(Log[i]) = Alternatives(cyc[c].pre[i])

(***************************************************************************)
(* Navigation and the acceptance of requests.                              *)
(***************************************************************************)
\* the entry displays the last of its alternatives
IsLast(m) == m.swipe_id >= Len(Alternatives(m)) - 1

\* the entry displays alternative id
Displays(m, id) ==
    /\ m.swipe_id = id
    /\ id >= 0 /\ id < Len(Alternatives(m))
    /\ m.mes = Alternatives(m)[id + 1]

\* some call of generateMessageSwipe is accepted in this step
CycleAccepted(c) == cyc[c].pc = "idle" /\ cyc'[c].pc = "reload"

\* C11 (as stated): a request for the next swipe starts a generation cycle only
\* on an entry that displays its last alternative
C11_ForwardGeneratesOnlyAtLast ==
    [][\A c \in Cycles :
          CycleAccepted(c) => IsLast(heap[At(chat, cyc'[c].messageId)])]_vars

\* C11 (amended): a click on the right arrow of an entry that does not display
\* its last alternative starts no generation cycle and displays the next
\* alternative, at once on a user entry and when the native swipe returns on
\* an assistant entry; the click starts a generation cycle only on an entry
\* that displays its last alternative; dswipeForward starts a generation
\* cycle wherever the entry stands
C11_ArrowNavigatesUnlessLast ==
    [][/\ \A c \in Cycles, messageId \in 0..(MaxLen - 1) :
             RightArrowClick(c, messageId) =>
                LET o == At(chat, messageId)
                    m == heap[o]
                IN /\ CycleAccepted(c) => IsLast(m)
                   /\ ~IsLast(m) =>
                         /\ cyc' = cyc
                         /\ m.is_user => Displays(heap'[o], m.swipe_id + 1)
                         /\ ~m.is_user => /\ nav'.pc = "swipeRight"
                                          /\ nav'.message = o
                                          /\ nav'.targetSwipeId = m.swipe_id + 1
       /\ SwipeRightReturns =>
             /\ cyc' = cyc
             /\ Displays(heap'[nav.message], nav.targetSwipeId)
       /\ \A c \in Cycles, messageId \in 0..(MaxLen - 1) :
             (dswipeForward(c, messageId)
                /\ cyc'[c].result \notin {"refused", "unconfigured"})
                => CycleAccepted(c)]_vars

\* the right arrow has brought an assistant entry from its first alternative
\* to its second
C11_Witness ==
    /\ nav.command = "right" /\ nav.outcome = "navigated"
    /\ \E k \in 1..Len(chat) :
          /\ ~Log[k].is_user
          /\ Log[k].swipe_id = 1 /\ Log[k].mes = "b"

\* the alternative dswipeBack is to display on entry m
Previous(m) == IF m.swipe_id = 0 THEN 0 ELSE m.swipe_id - 1

\* the objects other than o are as they were
OthersKept(o) == \A x \in Oids \ {o} : heap'[x] = heap[x]

Entries == (Range(chat) \cup {nav.message}) \ {Null}

UnusableOutput(c) == cyc[c].resolved /\ Trim(cyc[c].generated) = ""

\* the call threw to its caller
Threw(c) == CallEnded(c) /\ cyc[c].result = "threw"

\* C14: when Generate returns without a usable entry at the tail and no halt
\* was signalled, the call throws and leaves the log, with the target's
\* alternatives, activeIndex and content, as it was before the cycle (stated
\* for the runs in which no save damaged an entry)
C14_UnusableOutputRestores ==
    \A c \in Cycles :
        (UnusableOutput(c) /\ ~Cancelled(c) /\ CallEnded(c) /\ NoSaveDamage)
            => /\ Threw(c)
               /\ SameLog(Log, cyc[c].pre)

\* in that case the call does throw, and every entry but the target is as it
\* was before the cycle
C14_UnusableOutputRestoresOthers ==
    \A c \in Cycles :
        (UnusableOutput(c) /\ ~Cancelled(c) /\ CallEnded(c) /\ NoSaveDamage)
            => /\ Threw(c)
               /\ Len(chat) = Len(cyc[c].pre)
               /\ \A k \in 1..Len(chat) :
                     k # cyc[c].messageId + 1 => SameEntry(Log[k], cyc[c].pre[k])

\* a cycle on an assistant entry has failed on a blank output and left the
\* log as it was
C14_Witness ==
    \E c \in Cycles :
        /\ UnusableOutput(c) /\ ~Cancelled(c) /\ Threw(c)
        /\ cyc[c].generated = " "
        /\ ~cyc[c].isUserMessage
        /\ SameLog(Log, cyc[c].pre)

\* the call returned at its check of generationAborted, without an error
ReturnedAborted(c) == CallEnded(c) /\ cyc[c].result = "aborted"

\* C15: a call that was halted by GENERATION_STOPPED before Generate had
\* returned ends at the check of generationAborted and throws no error to its
\* caller, whether Generate then returns or throws
C15_HaltSurfacesCancellation ==
    \A c \in Cycles : (Cancelled(c) /\ CallEnded(c)) => ReturnedAborted(c)

\* a halted call whose Generate returned has ended at the check of
\* generationAborted
C15_Witness ==
    \E c \in Cycles : Cancelled(c) /\ cyc[c].resolved /\ ReturnedAborted(c)

\* the call of generateMessageSwipe that led to state r returned at once and
\* left the chat, its entries, the backup, the listeners and the stored chat
\* as they are
RefusedUntouched(r, c, result) ==
    /\ r.cyc[c].pc = "done" /\ r.cyc[c].result = result
    /\ r.heap = heap /\ r.chat = chat
    /\ r.backup = chatBackupBeforeGeneration
    /\ r.stopL = stopListeners /\ r.traceL = traceListeners
    /\ r.persisted = persisted

\* a request for a new swipe on message messageId can be made to slot c
Requestable(c, messageId) ==
    /\ cyc[c].pc = "idle"
    /\ isValidMessageId(messageId, chat)
    /\ At(chat, messageId) # Null

\* C16: while the Prompt Inspector is enabled, a call of generateMessageSwipe
\* on any entry returns at once: the chat, its entries with their
\* alternatives and activeIndex, the backup and the listeners are unchanged
\* and the call never reaches Generate; and a click on the right arrow that is
\* refused for the Prompt Inspector changes nothing and starts no call
C16_InspectorRefusesGeneration ==
    [][/\ \A c \in Cycles, messageId \in 0..(MaxLen - 1), impersonationPrompt \in BOOLEAN :
             Requestable(c, messageId) =>
                RefusedUntouched(
                    generateMessageSwipe(State, c, At(chat, messageId), messageId,
                                         heap[At(chat, messageId)].is_user, TRUE,
                                         impersonationPrompt),
                    c, "refused")
       /\ \A c \in Cycles, messageId \in 0..(MaxLen - 1) :
             (RightArrowClick(c, messageId) /\ nav'.outcome = "refused") =>
                UNCHANGED <<heap, chat, cyc, chatBackupBeforeGeneration,
                            stopListeners, traceListeners, persisted>>]_vars

\* a request for a new swipe on an assistant entry has been refused for the
\* Prompt Inspector
C16_Witness ==
    \E c \in Cycles :
        /\ CallEnded(c) /\ cyc[c].result = "refused"
        /\ ~cyc[c].isUserMessage
        /\ SameLog(Log, cyc[c].pre)
        /\ ~chatBackupBeforeGeneration.live /\ stopListeners = <<>>

\* C17: dswipeForward and dswipeBack called with a message id that is not a
\* number, is negative or is not below the length of the chat are rejected:
\* every such id is invalid, and the rejection leaves the chat, every entry,
\* the backup, the listeners and the stored chat unchanged and starts no
\* generation cycle
C17_InvalidIdRejectedUntouched ==
    [][/\ \A messageId \in {NaN, -1, Len(chat), MaxLen} :
             ~isValidMessageId(messageId, chat)
       /\ \A command \in {"forward", "back"}, messageId \in MessageIds :
             InvalidMessageId(command, messageId) =>
                /\ nav'.outcome = "invalid"
                /\ UNCHANGED <<heap, chat, cyc, chatBackupBeforeGeneration,
                               stopListeners, traceListeners, persisted>>]_vars

\* dswipeBack has been called with an invalid id after a navigation, and the
\* chat has its full length
C17_Witness ==
    /\ nav.command = "back" /\ nav.outcome = "invalid"
    /\ Len(chat) = MaxLen
    /\ \E k \in 1..MaxLen : Log[k].swipe_id # persisted[k].swipe_id

\* the entry is neither a system message nor flagged as not swipeable
Eligible(m) == ~m.is_system /\ m.swipeable

\* C18: no generation cycle on an entry that is a system message or is
\* flagged as not swipeable gets as far as the truncation of the chat, the
\* temp message and the call of Generate
C18_IneligibleTargetRejected ==
    \A c \in Cycles :
        cyc[c].pc = "generate" => Eligible(heap[cyc[c].message])

\* C19: without an impersonation prompt a call of generateMessageSwipe on a
\* user entry returns at once: the chat, its entries with their alternatives
\* and activeIndex, the backup and the listeners are unchanged and the call
\* never reaches Generate
C19_UnconfiguredPromptRefused ==
    \A c \in Cycles, messageId \in 0..(MaxLen - 1) :
        (Requestable(c, messageId) /\ heap[At(chat, messageId)].is_user) =>
            RefusedUntouched(
                generateMessageSwipe(State, c, At(chat, messageId), messageId,
                                     TRUE, FALSE, FALSE),
                c, "unconfigured")

\* a request for a new swipe on a user entry has been turned down for the
\* missing impersonation prompt, after a navigation
C19_Witness ==
    \E c \in Cycles :
        /\ CallEnded(c) /\ cyc[c].result = "unconfigured"
        /\ cyc[c].isUserMessage
        /\ SameLog(Log, cyc[c].pre)
        /\ ~chatBackupBeforeGeneration.live /\ stopListeners = <<>>
        /\ nav.outcome = "navigated"

(***************************************************************************)
(* Overlapping requests.                                                   *)
(***************************************************************************)
\* cycle c has cut the chat and awaits Generate, and no halt has put the
\* chat back
CycleHolds(c) == cyc[c].pc = "generate" /\ ~cyc[c].generationAborted

\* a navigation has cut the chat and awaits the native swipe
NavHolds == nav.pc # "idle"

\* this step cuts the chat for a navigation that then awaits the native swipe
NavCuts == nav.pc = "idle" /\ nav'.pc # "idle"

\* this step cuts the chat for cycle c
CycleCuts(c) == cyc[c].pc = "import1" /\ cyc'[c].pc = "generate"

\* C20: the chat is not cut while an earlier cut has not been put back: no
\* navigation cuts it while a cycle awaits Generate, and no cycle cuts it
\* while a navigation awaits the native swipe or another cycle awaits
\* Generate
C20_NoSecondTruncation ==
    [][/\ NavCuts => \A c \in Cycles : ~CycleHolds(c)
       /\ \A c \in Cycles :
             CycleCuts(c) =>
                (~NavHolds /\ \A d \in Cycles \ {c} : ~CycleHolds(d))]_vars

\* both calls have ended and every recovery they started has finished, each
\* generation having been stopped while its Generate() was running
BothCancelled ==
    \A c \in Overlapping :
        /\ CallEnded(c) /\ Cancelled(c) /\ RecoveryFinished(c)
        /\ cyc[c].engStopped

\* C21: when two cycles overlap and both are cancelled, then once both
\* recoveries have finished the log equals the log before the first cycle:
\* no temp message remains, no entry is missing or duplicated (stated for
\* the runs in which no save damaged an entry)
C21_OverlappingCancelsRestoreLog ==
    (BothCancelled /\ NoSaveDamage) => SameLog(Log, cyc[1].pre)

\* two overlapping cycles were both stopped during Generate() and have
\* ended, recoveries included
C21_Witness == BothCancelled /\ NoSaveDamage

\* the stop was delivered to cycle c after its listeners were registered and
\* before its truncation: the call is suspended at await import('./ui.js')
HaltedBeforeTruncation(c) == cyc[c].pc = "import1" /\ Cancelled(c)

\* C22: a cycle that was halted after it registered its listeners and before
\* it truncated the log does not go on to truncate the log, append the temp
\* message and call Generate()
C22_EarlyHaltStopsCycle ==
    [][\A c \in Cycles : HaltedBeforeTruncation(c) => cyc'[c].pc # "generate"]_vars

\* a cycle halted before its truncation whose recovery has finished
C22_Witness ==
    \E c \in Cycles : HaltedBeforeTruncation(c) /\ cyc[c].clean = "done"

\* entry m shows the alternative its swipe_id points at
ContentIsActive(m) == Displays(m, m.swipe_id)

\* C23: whenever no cycle is in flight (no call, no recovery and no
\* navigation is running), the text of every entry of the log is the
\* alternative at its swipe_id (stated for the runs in which no save damaged
\* an entry)
C23_ContentIsActiveAlternative ==
    (Quiet /\ NoSaveDamage) =>
        \A k \in 1..Len(chat) : chat[k] # Null => ContentIsActive(heap[chat[k]])

\* a cycle has failed and ended, no save having damaged an entry
C23_Witness ==
    Quiet /\ NoSaveDamage /\ \E c \in Cycles : cyc[c].result = "threw" /\ ~Cancelled(c)

\* C24: in every reachable state every entry that has a swipes array has at
\* least one swipe, and its swipe_id is an index of that array
C24_ActiveIndexInRange ==
    \A o \in Entries :
        heap[o].hasSwipes =>
            /\ Len(heap[o].swipes) > 0
            /\ heap[o].swipe_id >= 0
            /\ heap[o].swipe_id < Len(heap[o].swipes)

\* a cycle on an entry that had no swipes array has failed and ended
C24_Witness ==
    \E c \in Cycles :
        /\ CallEnded(c) /\ cyc[c].result = "threw"
        /\ ~cyc[c].pre[cyc[c].messageId + 1].hasSwipes

\* the swipe_info of an entry, none when it has no such array
Metadata(m) == IF m.hasInfo THEN m.swipe_info ELSE <<>>

\* the entry cycle c worked on is in the log with the metadata it had before
\* the cycle followed by extra records
MetadataGrewBy(c, extra) ==
    /\ At(chat, cyc[c].messageId) # Null
    /\ LET m == heap[At(chat, cyc[c].messageId)]
           p == cyc[c].pre[cyc[c].messageId + 1]
       IN /\ Len(Metadata(m)) = Len(Metadata(p)) + extra
          /\ SubSeq(Metadata(m), 1, Len(Metadata(p))) = Metadata(p)
          /\ extra = 0 => m.hasInfo = p.hasInfo

\* C25: whenever no cycle is in flight, the swipe_info of every entry that
\* has one is as long as its swipes; a cycle that succeeded has added exactly
\* one record to the swipe_info of its target, and a cycle that was cancelled
\* or that failed has left the swipe_info of its target as it was (stated for
\* the runs in which no save damaged an entry)
C25_MetadataFollowsAlternatives ==
    (Quiet /\ NoSaveDamage) =>
        /\ \A k \in 1..Len(chat) :
              (chat[k] # Null /\ heap[chat[k]].hasSwipes /\ heap[chat[k]].hasInfo)
                  => Len(heap[chat[k]].swipe_info) = Len(heap[chat[k]].swipes)
        /\ \A c \in Cycles :
              /\ (cyc[c].result = "committed" /\ ~Cancelled(c)) => MetadataGrewBy(c, 1)
              /\ (cyc[c].result = "threw" \/ Cancelled(c)) => MetadataGrewBy(c, 0)

\* a cycle on an entry with two records of swipe_info has failed and ended
C25_Witness ==
    \E c \in Cycles :
        /\ Quiet /\ NoSaveDamage
        /\ cyc[c].result = "threw" /\ ~Cancelled(c)
        /\ Len(Metadata(cyc[c].pre[cyc[c].messageId + 1])) = 2

\* cycle c has reserved its placeholder and has neither committed the new
\* swipe nor rolled it back
Reserved(c) == cyc[c].pc \in {"import1", "generate", "apiModel", "import2"}

\* the message cycle c adds its swipe to: the message it was called with and,
\* once the hidden messages are back, the message it stored the swipe on
TargetOf(c) ==
    IF cyc[c].actualTargetMessage # Null THEN cyc[c].actualTargetMessage
    ELSE cyc[c].message

\* the target of cycle c as it was when the cycle was requested
TargetBefore(c) == cyc[c].pre[cyc[c].messageId + 1]

\* the target keeps the swipe_id and the text it had before the cycle
C26_DisplayKeptWhileReserved ==
    \A c \in Cycles :
        Reserved(c) =>
            /\ heap[TargetOf(c)].swipe_id = TargetBefore(c).swipe_id
            /\ heap[TargetOf(c)].mes = TargetBefore(c).mes

\* C26: reserving the placeholder appends one empty swipe to the swipes of
\* the target without changing its swipe_id, and from the reservation until
\* the commit or the rollback the target keeps the swipe_id and the text it
\* had before the cycle
C26_PlaceholderReserved ==
    /\ \A c \in Cycles :
          (cyc[c].pc \in {"import1", "generate"} /\ ~Cancelled(c)) =>
              Alternatives(heap[TargetOf(c)]) =
                  Append(Alternatives(TargetBefore(c)), "")
    /\ C26_DisplayKeptWhileReserved

\* a cycle has reserved its placeholder and waits for Generate()
C26_Witness ==
    \E c \in Cycles : cyc[c].pc = "generate" /\ ~Cancelled(c) /\ cyc[c].newSwipeIndex = 2

\* C27: by the time the recovery of a cancelled cycle has finished, the chat
\* has been saved by it at least twice
C27_RecoverySavesTwice ==
    \A c \in Cycles : cyc[c].clean = "done" => cyc[c].saves >= 2

\* a cycle was stopped during Generate(), its recovery has finished and the
\* call has returned
C27_Witness ==
    \E c \in Cycles :
        cyc[c].clean = "done" /\ cyc[c].result = "aborted" /\ cyc[c].engStopped

\* the log was put back and the view is being rebuilt, nothing saved yet and
\* the backup still held
C28_RestoredBeforeRebuild ==
    \A c \in Cycles :
        cyc[c].clean = "print" =>
            /\ cyc[c].restores = 1 /\ cyc[c].saves = 0
            /\ chatBackupBeforeGeneration.live

\* C28: the recovery puts the log back from the backup, then rebuilds the
\* view, then saves the chat, and gives the backup up only after the save has
\* completed: while the view is rebuilt nothing has been saved, and while the
\* save is running the backup is still held
C28_RecoveryOrder ==
    /\ C28_RestoredBeforeRebuild
    /\ \A c \in Cycles :
          cyc[c].clean = "save" =>
              /\ cyc[c].restores = 1 /\ cyc[c].saves = 1
              /\ chatBackupBeforeGeneration.live

\* the recovery of a cycle stopped during Generate() is waiting for its save
C28_Witness ==
    \E c \in Cycles : cyc[c].clean = "save" /\ cyc[c].engStopped

\* the backup is taken from the log as it was when the cycle was requested
C29_BackupTakenBeforeMutation ==
    \A c \in Cycles :
        (cyc[c].pc = "import1" /\ ~Cancelled(c)) =>
            /\ chatBackupBeforeGeneration.live
            /\ chatBackupBeforeGeneration.log = cyc[c].pre

\* C29: the backup is taken at the start of the cycle, before anything is
\* changed, and no backup is held once the cycle has ended, be it by a
\* commit, by a cancellation or by a failure
C29_NoBackupAfterCycle ==
    /\ C29_BackupTakenBeforeMutation
    /\ \A c \in Cycles :
          (CallEnded(c) /\ RecoveryFinished(c)
              /\ cyc[c].result \in {"committed", "aborted", "threw"})
              => ~chatBackupBeforeGeneration.live

\* a cycle that was not cancelled has committed its swipe and returned
C29_Witness ==
    \E c \in Cycles :
        CallEnded(c) /\ cyc[c].result = "committed" /\ cyc[c].restores = 0

\* C30: when the call of a cycle has ended, by a commit, a cancellation, a
\* failure or a refusal, neither its listener of STREAM_REASONING_DONE nor
\* its listener of GENERATION_STOPPED is registered, so that either signal
\* emitted from then on changes nothing of that cycle
C30_NoListenerAfterCycle ==
    \A c \in Cycles :
        CallEnded(c) =>
            /\ c \notin traceListeners
            /\ \A k \in 1..Len(stopListeners) : stopListeners[k] # c
            /\ EmitStopped(State, stopListeners).cyc[c] = cyc[c]
            /\ \A r \in Traces :
                  EmitReasoningDone(State, traceListeners, r).cyc[c] = cyc[c]

\* a cycle that registered its listeners and was not cancelled has committed
\* and returned
C30_Witness ==
    \E c \in Cycles :
        /\ CallEnded(c) /\ cyc[c].result = "committed" /\ ~Cancelled(c)
        /\ stopListeners = <<>> /\ traceListeners = {}

(***************************************************************************)
(* Progress.  The platform resumes a call suspended at an await once the   *)
(* awaited promise has settled, and the engine settles Generate(), also    *)
(* after it was stopped.  Each condition is weak fairness of the steps     *)
(* named; for the steps that copy messages it is written out,              *)
(*     []<>(~ENABLED <<A>>_vars) \/ []<><<A>>_vars,                        *)
(* with the guard of the action for ENABLED <<A>>_vars (every such step    *)
(* changes pc or clean, so the guard is the enabling condition).           *)
(***************************************************************************)
\* the call of cycle c is resumed at an await after which it copies nothing
Continues(c) ==
    \/ ReloadReturns(c)
    \/ ApiModelReturns(c)
    \/ CompletionImported(c)
    \/ CatchImported(c)

\* the call of cycle c is resumed at one of its other awaits, Generate() apart
Resumes(c) == OverlayImported(c) \/ RenderImported(c) \/ SaveReturns(c)

CanResume(c) == cyc[c].pc \in {"import1", "import3", "save"}

\* the engine settles the Generate() of cycle c
Settles(c) == GenerateReturns(c) \/ GenerateThrows(c)

CanSettle(c) == cyc[c].pc = "generate"

Fairness ==
    \A c \in Cycles :
        /\ WF_vars(Continues(c))
        /\ WF_vars(CleanupSaveReturns(c))
        /\ []<>(~CanResume(c)) \/ []<><<Resumes(c)>>_vars
        /\ []<>(~CanSettle(c)) \/ []<><<Settles(c)>>_vars
        /\ []<>(cyc[c].clean # "print") \/ []<><<PrintMessagesReturns(c)>>_vars

SpecLive == Init /\ [][Next]_vars /\ Fairness

\* the call of cycle c was accepted and has begun
Started(c) == cyc[c].pc = "reload"

\* the log is cut short or holds a temp message
Truncated(c) ==
    \/ Len(chat) < Len(cyc[c].pre)
    \/ \E k \in 1..Len(chat) : chat[k] # Null /\ heap[chat[k]].isDeepSwipeTemp

\* every started call eventually returns or throws, its recovery finished
C31_CallEventuallyEnds ==
    \A c \in Cycles : Started(c) ~> (CallEnded(c) /\ RecoveryFinished(c))

\* C31: with an engine that settles Generate(), every started cycle
\* eventually ends: the call has returned or thrown, the recovery it started
\* has finished and the log is no longer truncated
C31_CycleEventuallyEnds ==
    \A c \in Cycles :
        Started(c) ~> (CallEnded(c) /\ RecoveryFinished(c) /\ ~Truncated(c))

\* a call has returned after its generation was stopped, recovery finished
C31_Witness ==
    \E c \in Cycles :
        CallEnded(c) /\ cyc[c].clean = "done" /\ cyc[c].result = "aborted"

(***************************************************************************)
(* Ownership of a stop.  The stop control of a cycle is part of the        *)
(* overlay, which exists only once the import of ui.js has returned: a     *)
(* GENERATION_STOPPED heard while the call still awaits that import was    *)
(* raised by something else, and the cycle has not confirmed it as its own.*)
(***************************************************************************)
StopControlShown(c) == cyc[c].pc \notin {"idle", "reload", "import1"}
HeardUnowned(c) ==
    /\ GenerationStopped
    /\ \E k \in 1..Len(stopListeners) : stopListeners[k] = c
    /\ ~StopControlShown(c)

\* C32: a halted signal heard by a cycle that has not confirmed the stop as
\* its own (its stop control was never shown) gets minimal cleanup only: the
\* listener is detached, the log is not put back from the snapshot and no
\* recovery is started.
C32_UnownedStopMinimalCleanup ==
    [][\A c \in Cycles :
          HeardUnowned(c) =>
              /\ \A k \in 1..Len(stopListeners') : stopListeners'[k] # c
              /\ cyc'[c].restores = cyc[c].restores
              /\ cyc'[c].clean = cyc[c].clean
              /\ chatBackupBeforeGeneration' = chatBackupBeforeGeneration]_vars
C32_Witness ==
    \E c \in Cycles :
        /\ ~StopControlShown(c)
        /\ cyc[c].generationAborted
        /\ cyc[c].restores = 1

(***************************************************************************)
(* Staleness tags of the rendered entries.                                 *)
(***************************************************************************)
\* C33: every entry marked stale at the truncation has its staleness tag
\* cleared by the time the cycle ends (the call has returned or thrown and
\* any recovery has finished), on the success, cancellation and failure
\* paths alike.
C33_NoStaleTagAfterCycle ==
    \A c \in Cycles : (CallEnded(c) /\ RecoveryFinished(c)) => stale = {}
C33_Witness ==
    \E c \in Cycles :
        /\ CallEnded(c) /\ RecoveryFinished(c)
        /\ cyc[c].result = "aborted"
        /\ stale # {}

(***************************************************************************)
(* A damaged swipe_id at the start of a cycle.                             *)
(***************************************************************************)
\* the cycle has passed the capture of the original swipe
Captured(c) == cyc[c].capturedTargetMessage # Free

\* the target as it was when the cycle was asked for
TargetAtStart(c) == cyc[c].pre[cyc[c].messageId + 1]

OutOfBounds(m) == m.swipe_id < 0 \/ m.swipe_id >= Len(Alternatives(m))

\* C34: a cycle started on a target whose swipe_id is out of bounds (negative,
\* undefined, or not below the number of swipes) records a pre-cycle swipe id
\* within 0..len(swipes)-1.
C34_RecordedIndexInRange ==
    \A c \in Cycles :
        (Captured(c) /\ OutOfBounds(TargetAtStart(c))) =>
            /\ cyc[c].originalSwipeId >= 0
            /\ cyc[c].originalSwipeId < Len(Alternatives(TargetAtStart(c)))

\* the same for the two kinds of damage the code repairs
C34_BeyondOrMissingIsRepaired ==
    \A c \in Cycles :
        (Captured(c) /\ TargetAtStart(c).swipe_id \in {2, NoIndex}) =>
            cyc[c].originalSwipeId = 0
C34_Witness ==
    \E c \in Cycles :
        /\ Captured(c)
        /\ TargetAtStart(c).swipe_id = -1
        /\ cyc[c].originalSwipeId = -1

(***************************************************************************)
(* What an entry displays after a navigation.                              *)
(***************************************************************************)
\* the trace and the provenance the entry displays are those recorded for the
\* alternative it displays, absent where none is recorded
DisplaysOwnMetadata(m) ==
    (m.hasInfo /\ m.swipe_id >= 0 /\ m.swipe_id < Len(m.swipe_info)) =>
        /\ m.reasoning = m.swipe_info[m.swipe_id + 1]
        /\ m.api = m.swipe_api[m.swipe_id + 1]

\* C35: a step that brings an entry to another of its existing alternatives k
\* leaves it with swipe_id = k, mes = swipes[k], and the trace and provenance
\* recorded in swipe_info[k], absent where they are absent there: nothing of
\* the alternative displayed before is carried over.
C35_NavigationDisplaysOwnMetadata ==
    [][\A o \in Entries :
          heap'[o].swipe_id # heap[o].swipe_id =>
              /\ Displays(heap'[o], heap'[o].swipe_id)
              /\ DisplaysOwnMetadata(heap'[o])]_vars

\* the same for the trace alone
C35_NavigationDisplaysOwnTrace ==
    [][\A o \in Entries :
          (heap'[o].swipe_id # heap[o].swipe_id /\ heap'[o].hasInfo) =>
              /\ Displays(heap'[o], heap'[o].swipe_id)
              /\ heap'[o].reasoning = heap'[o].swipe_info[heap'[o].swipe_id + 1]]_vars

\* a user entry was brought back from its generated alternative to the typed
\* one and still displays the provenance of the generated one
C35_Witness ==
    /\ nav.command = "back" /\ nav.outcome = "navigated"
    /\ \E k \in 1..Len(chat) :
          /\ Log[k].is_user
          /\ Displays(Log[k], 0)
          /\ Log[k].swipe_api[1] = ""
          /\ Log[k].api = "m0"

(***************************************************************************)
(* The frame of a navigation.                                              *)
(***************************************************************************)
\* a step of a navigation between existing alternatives: dswipeBack, the
\* right arrow on an entry that does not display its last alternative, and
\* the return or the failure of the native swipe they await
NavigationStep ==
    \/ \E messageId \in 0..(MaxLen - 1) : dswipeBack(messageId)
    \/ \E c \in Cycles, messageId \in 0..(MaxLen - 1) :
          RightArrowClick(c, messageId) /\ ~AtLastSwipe(heap[At(chat, messageId)])
    \/ NavSteps

OnlyDisplayDiffers(a, b) ==
    a = [b EXCEPT !.swipe_id = a.swipe_id, !.mes = a.mes,
                  !.reasoning = a.reasoning, !.api = a.api]

EngineEntry == heap[At(chat, Len(chat) - 1)]

\* C39: every emission of STREAM_REASONING_DONE a cycle hears replaces the
\* trace it holds, so that the last emission wins; when Generate() has
\* returned, the trace captured for the new alternative is that of the last
\* emission, and the trace of the generated entry itself only when no emission
\* was heard; the captured trace is what is recorded in the swipe_info of the
\* new alternative.
C39_LastTraceWins ==
    /\ [](\A c \in Cycles, r \in Traces :
             c \in traceListeners =>
                EmitReasoningDone(State, traceListeners, r).cyc[c].streamingReasoningData = r)
    /\ [][\A c \in Cycles :
             (GenerateReturns(c) /\ cyc'[c].pc = "apiModel") =>
                cyc'[c].capturedReasoning =
                    IF cyc[c].streamingReasoningData # ""
                    THEN cyc[c].streamingReasoningData
                    ELSE EngineEntry.reasoning]_vars
    /\ [][\A c \in Cycles :
             (ApiModelReturns(c) /\ cyc[c].capturedReasoning # "") =>
                LET info == heap'[cyc[c].actualTargetMessage].swipe_info
                IN info[Len(info)] = cyc[c].capturedReasoning]_vars

\* a cycle that awaits Generate() holds the trace of an earlier emission and
\* can hear another, the generated entry having a trace of its own
HeardBefore ==
    \E c \in Cycles :
        /\ cyc[c].pc = "generate" /\ c \in traceListeners
        /\ cyc[c].streamingReasoningData = "r1"
        /\ cyc[c].engAppended /\ EngineEntry.reasoning = "re"

\* the new alternative of a cycle records the trace r2 it heard last
C39_Witness ==
    \E c \in Cycles :
        /\ cyc[c].pc = "import2"
        /\ cyc[c].streamingReasoningData = "r2"
        /\ LET info == heap[cyc[c].actualTargetMessage].swipe_info
           IN info[Len(info)] = "r2"

(***************************************************************************)
(* What dswipeForward answers.                                             *)
(***************************************************************************)
\* the value dswipeForward returns once generateMessageSwipe has returned;
\* when generateMessageSwipe throws, dswipeForward throws and returns nothing
GeneratedNewSwipe == "Generated new swipe"
ReturnOfForward(c) ==
    IF cyc[c].result = "threw" THEN Undefined ELSE GeneratedNewSwipe

\* the entry of the log at messageId has one alternative more than the target
\* had when the call was made
GainedAlternative(c) ==
    /\ At(chat, cyc[c].messageId) # Null
    /\ Len(Alternatives(Log[cyc[c].messageId + 1]))
           = Len(Alternatives(TargetAtStart(c))) + 1

\* C40: a call of dswipeForward that has returned 'Generated new swipe' has
\* given its target a new alternative; a call whose generation was refused
\* (Prompt Inspector enabled, no impersonation prompt) or cancelled has
\* returned something else.
C40_GeneratedOnlyWhenGained ==
    \A c \in Cycles :
        (CallEnded(c) /\ ReturnOfForward(c) = GeneratedNewSwipe) =>
            /\ GainedAlternative(c)
            /\ cyc[c].result \notin {"refused", "unconfigured", "aborted"}

\* a call that was refused has returned 'Generated new swipe', the target
\* having the alternatives it had
C40_Witness ==
    \E c \in Cycles :
        /\ CallEnded(c) /\ cyc[c].result = "refused"
        /\ ReturnOfForward(c) = GeneratedNewSwipe
        /\ ~GainedAlternative(c)

====
